---- MODULE Spec2Model ----
\* Model of load_grid_from_netcdf, the NetCDF subsetting routine of
\* examples/WFMD_v1.8_complete.ipynb: one call of the function on one file,
\* step by step (dates, load_dataset, attributes, selection, close, return),
\* and the rest of the notebook's load cell, which masks the result.
EXTENDS Integers, Sequences, FiniteSets, TLC

VARIABLES file, args, pc, err, date_min, date_max, handle, opens,
          latd, lond, bounds, xch4, sdev, N, x, y, d, ret, prev, cell

vars == <<file, args, pc, err, date_min, date_max, handle, opens,
          latd, lond, bounds, xch4, sdev, N, x, y, d, ret, prev, cell>>

-----------------------------------------------------------------------------
\* Bounds of the model

\* longest latitude axis of a file
MaxLatLen == 2
\* longest day axis of a file
MaxDayLen == 2

-----------------------------------------------------------------------------
\* datetime.datetime(y,m,d) - datetime.datetime(1970,1,1)).days

IsLeap(yr) == (yr % 4 = 0) /\ ((yr % 100 # 0) \/ (yr % 400 = 0))

DaysInMonth(yr, mo) ==
    IF mo = 2 THEN (IF IsLeap(yr) THEN 29 ELSE 28)
    ELSE IF mo \in {4, 6, 9, 11} THEN 30 ELSE 31

DaysBeforeYear(yr) ==
    (yr - 1) * 365 + ((yr - 1) \div 4) - ((yr - 1) \div 100) + ((yr - 1) \div 400)

RECURSIVE DaysBeforeMonth(_, _)
DaysBeforeMonth(yr, mo) ==
    IF mo <= 1 THEN 0 ELSE DaysBeforeMonth(yr, mo - 1) + DaysInMonth(yr, mo - 1)

\* datetime.datetime(yr, mo, dy) raises ValueError unless this holds
ValidDate(dy, mo, yr) ==
    /\ yr >= 1 /\ yr <= 9999
    /\ mo >= 1 /\ mo <= 12
    /\ dy >= 1 /\ dy <= DaysInMonth(yr, mo)

Ymd2Ord(yr, mo, dy) == DaysBeforeYear(yr) + DaysBeforeMonth(yr, mo) + dy

\* (datetime.datetime(yr,mo,dy) - datetime.datetime(1970,1,1)).days
DateOffset(dy, mo, yr) == Ymd2Ord(yr, mo, dy) - Ymd2Ord(1970, 1, 1)

-----------------------------------------------------------------------------
\* Inputs: the dates a caller passes, as (day, month, year); the last one is
\* not a calendar date.
Dates == {<<28, 2, 2020>>, <<29, 2, 2020>>, <<1, 3, 2020>>, <<30, 2, 2020>>}

\* the coordinate values a file may hold; the days are the offsets of the
\* calendar dates above
LatVals == {0, 2, 4}
LonVals == {0, 2}
DayVals == {DateOffset(dt[1], dt[2], dt[3]) : dt \in {t \in Dates : ValidDate(t[1], t[2], t[3])}}

\* a coordinate axis: distinct values in any order (the file need not be sorted)
Axes(vals, maxlen) ==
    UNION {{s \in [1..n -> vals] : \A i, j \in 1..n : s[i] = s[j] => i = j} : n \in 0..maxlen}

\* declared extents and steps of a file:
\* <<lat_low, lat_high, lon_low, lon_high, lat_res, lon_res>>
Declared ==
    { <<0, 4, 0, 4, 2, 2>>,      \* 2 x 2 bins
      <<0, 6, 0, 2, 2, 2>>,      \* 3 x 1 bins
      <<0, 5, 2, 4, 2, 1>>,      \* 5/2 truncates to 2 bins
      <<0, -1, 0, 4, 2, 2>>,     \* -1/2 truncates to 0 bins
      <<4, 0, 0, 4, 2, 2>>,      \* negative latitude extent
      <<0, 4, 0, 4, 2, -2>>,     \* negative longitude step
      <<0, 4, 0, 4, 0, 2>>,      \* zero latitude step
      <<0, 4, 2, 2, 2, 0>> }     \* zero longitude step on an empty extent

\* grid_dim values a caller passes; <<>> stands for None
GridDims ==
    { <<>>, <<0, 4, 0, 4>>, <<2, 4, 0, 2>>, <<0, 2, 2, 4>>, <<4, 2, 0, 4>>, <<2, 2, 0, 0>> }

\* content of the three variables of the file: every cell of every variable
\* holds a different number, so that a misplaced cell shows
Content(v, i, j, k) == v * 1000 + i * 100 + j * 10 + k

Cells(shape) == (1..shape[1]) \X (1..shape[2]) \X (1..shape[3])

FileArray(v, nlat, nlon, nday) ==
    [shape |-> <<nlat, nlon, nday>>,
     data  |-> [c \in Cells(<<nlat, nlon, nday>>) |-> Content(v, c[1], c[2], c[3])]]

\* the dataset of section 6: attributes, 1-D coordinates, 3-D variables
\* indexed (lat, lon, day)
MakeFile(lat, lon, day, decl) ==
    [attrs |-> [product_type |-> "WFMD", reference_time |-> "1970-01-01",
                lat_low |-> decl[1], lat_high |-> decl[2],
                lon_low |-> decl[3], lon_high |-> decl[4],
                lat_res |-> decl[5], lon_res |-> decl[6]],
     exists |-> TRUE, readable |-> TRUE, missing |-> "none",
     lat |-> lat, lon |-> lon, day |-> day,
     xch4     |-> FileArray(1, Len(lat), Len(lon), Len(day)),
     xch4_err |-> FileArray(2, Len(lat), Len(lon), Len(day)),
     N        |-> FileArray(3, Len(lat), Len(lon), Len(day))]

Files ==
    {MakeFile(lat, lon, day, decl) :
        lat \in Axes(LatVals, MaxLatLen), lon \in Axes(LonVals, Cardinality(LonVals)),
        day \in Axes(DayVals, MaxDayLen), decl \in Declared}

\* the attributes read before latd and lond are computed, the variables and
\* the attribute read after it, and the variables read by the selection
EarlyAttrs == {"product_type", "lat_low", "lat_high", "lon_low", "lon_high", "lat_res", "lon_res"}
LateItems == {"lon", "lat", "day", "reference_time"}
DataVars == {"xch4", "xch4_err", "N"}

\* one missing item of each group, and of the last group two
MissingItems == {"lat_res", "day", "reference_time", "xch4_err", "N"}

\* paths that xr.load_dataset cannot load, and files that lack an attribute
\* or a variable: the files of full axes in file order, with each declaration
DefectFiles ==
    LET full == {MakeFile(<<0, 2>>, <<0, 2>>, day, decl) :
                    day \in {dd \in Axes(DayVals, 2) : Len(dd) = 2 /\ dd[1] < dd[2]},
                    decl \in Declared}
    IN  {[f EXCEPT !.exists = FALSE] : f \in full}
        \cup {[f EXCEPT !.readable = FALSE] : f \in full}
        \cup {[f EXCEPT !.missing = m] : f \in full, m \in MissingItems}

-----------------------------------------------------------------------------
\* The pieces of load_grid_from_netcdf

Abs(n) == IF n < 0 THEN -n ELSE n

\* variant: floor division (//) in place of int(/)
IntDivFloor(num, den) == IF den > 0 THEN num \div den ELSE (-num) \div (-den)

\* int(num / den) for den # 0: truncation towards zero
IntDiv(num, den) ==
    IF (num < 0) = (den < 0) THEN Abs(num) \div Abs(den) ELSE -(Abs(num) \div Abs(den))

\* the error of int((HIGH-LOW)/STEP) when STEP = 0: ZeroDivisionError for
\* Python numbers; for numpy scalars the quotient is inf (OverflowError in
\* int) or, for 0/0, nan (ValueError in int)
ZeroStepErrors(num) ==
    IF num = 0 THEN {"ZeroDivisionError", "ValueError"}
    ELSE {"ZeroDivisionError", "OverflowError"}

\* the error of xr.load_dataset(path): FileNotFoundError for a path that does
\* not exist; for a file that is not a dataset the OSError of the backend
\* that tries to read it, or the ValueError of xarray when no installed
\* backend accepts the file
LoadErrors(f) ==
    IF ~f.exists THEN {"FileNotFoundError"} ELSE {"OSError", "ValueError"}

\* variant: the item is read with .get(), and the None fails in what follows
MissingErrorTypeError(item) == "TypeError"

\* the error of ds.attrs[item] and of ds.variables[item] for an item the
\* file does not have
MissingError(item) == "KeyError"

\* np.zeros((latd,lond)) raises ValueError for a negative dimension
ZerosFails(nlat, nlon) == nlat < 0 \/ nlon < 0

\* variant: the default takes the longitude bounds from the latitude attributes
EffectiveBoundsLatTwice(grid_dim, attrs) ==
    IF grid_dim # <<>> THEN grid_dim
    ELSE <<attrs.lat_low, attrs.lat_high, attrs.lat_low, attrs.lat_high>>

\* lat_min, lat_max, lon_min, lon_max
EffectiveBounds(grid_dim, attrs) ==
    IF grid_dim # <<>> THEN grid_dim
    ELSE <<attrs.lat_low, attrs.lat_high, attrs.lon_low, attrs.lon_high>>

\* variant: upper latitude bound included
LatMaskClosed(lat, b) == [i \in 1..Len(lat) |-> (lat[i] >= b[1]) /\ (lat[i] <= b[2])]

\* a = (y>=lat_min) & (y<lat_max)
LatMask(lat, b) == [i \in 1..Len(lat) |-> (lat[i] >= b[1]) /\ (lat[i] < b[2])]

\* b = (x>=lon_min) & (x<lon_max)
LonMask(lon, b) == [i \in 1..Len(lon) |-> (lon[i] >= b[3]) /\ (lon[i] < b[4])]

\* variant: end day excluded
DayMaskHalfOpen(day, dmin, dmax) ==
    [i \in 1..Len(day) |-> (day[i] >= dmin) /\ (day[i] < dmax)]

\* variant: the two comparisons joined by | in place of &
DayMaskEither(day, dmin, dmax) ==
    [i \in 1..Len(day) |-> (day[i] >= dmin) \/ (day[i] <= dmax)]

\* (d>=date_min) & (d<=date_max)
DayMask(day, dmin, dmax) == [i \in 1..Len(day) |-> (day[i] >= dmin) /\ (day[i] <= dmax)]

\* variant: the selected positions in descending order
NonzeroDescending(mask) ==
    LET asc == SelectSeq([i \in 1..Len(mask) |-> i], LAMBDA i : mask[i])
    IN  [i \in 1..Len(asc) |-> asc[Len(asc) + 1 - i]]

\* the positions a boolean indexer selects, in ascending order (np.nonzero)
Nonzero(mask) == SelectSeq([i \in 1..Len(mask) |-> i], LAMBDA i : mask[i])

\* v[mask] on a 1-D variable
Take(v, mask) == [i \in 1..Len(Nonzero(mask)) |-> v[Nonzero(mask)[i]]]

\* var[a, b, c] with three 1-D boolean indexers on three different
\* dimensions: each axis is selected independently of the others
OuterIndex(var, a, b, c) ==
    LET ia == Nonzero(a)
        ib == Nonzero(b)
        ic == Nonzero(c)
        shape == <<Len(ia), Len(ib), Len(ic)>>
    IN  [shape |-> shape,
         data  |-> [t \in Cells(shape) |-> var.data[<<ia[t[1]], ib[t[2]], ic[t[3]]>>]]]

\* variant: N read without the day mask
SliceNAllDays(ds, a, b, c) == OuterIndex(ds.N, a, b, [i \in 1..Len(c) |-> TRUE])

\* ds.variables['xch4'][a,b,c], ds.variables['xch4_err'][a,b,c] and
\* ds.variables['N'][a,b,c]
SliceXch4(ds, a, b, c) == OuterIndex(ds.xch4, a, b, c)
SliceErr(ds, a, b, c) == OuterIndex(ds.xch4_err, a, b, c)
SliceN(ds, a, b, c) == OuterIndex(ds.N, a, b, c)

\* variant: the two steps exchanged
GridDimRecordStepsSwapped(b, lat_step, lon_step) ==
    [LAT_LOW |-> b[1], LAT_HIGH |-> b[2], LON_LOW |-> b[3], LON_HIGH |-> b[4],
     LAT_STEP |-> lon_step, LON_STEP |-> lat_step]

\* the states the file handle can have after xr.load_dataset: the library
\* opens the file, loads it into memory and closes it before it returns the
\* dataset; a dataset that still holds its file (as xr.open_dataset returns
\* it) is admitted too, so that nothing rests on the library's release
AfterLoad(h) == {"closed", "open"}

\* variant: ds.close() left out
AfterCloseKept(h) == h

\* the file handle after ds.close()
AfterClose(h) == "closed"

\* the grid_dim dictionary of the result
GridDimRecord(b, lat_step, lon_step) ==
    [LAT_LOW |-> b[1], LAT_HIGH |-> b[2], LON_LOW |-> b[3], LON_HIGH |-> b[4],
     LAT_STEP |-> lat_step, LON_STEP |-> lon_step]

\* return xch4, sdev, N, x.values, y.values, d, grid_dim, product_type, ref_time
ReturnTuple(a_xch4, a_sdev, a_N, a_x, a_y, a_d, gd, attrs) ==
    <<a_xch4, a_sdev, a_N, a_x, a_y, a_d, gd, attrs.product_type, attrs.reference_time>>

-----------------------------------------------------------------------------
\* The load cell of the notebook, after its call of load_grid_from_netcdf

\* np.nan, as a number that no cell of a file holds
NaN == -1

\* the areas the cell passes as grid_dim=grid
CellGrids == {<<0, 4, 0, 4>>, <<2, 4, 0, 2>>}

\* the settings (dd1, md1, yd1) and (dd2, md2, yd2) of the data window
DataWindows ==
    { <<<<29, 2, 2020>>, <<29, 2, 2020>>>>, <<<<28, 2, 2020>>, <<29, 2, 2020>>>>,
      <<<<29, 2, 2020>>, <<1, 3, 2020>>>>, <<<<1, 3, 2020>>, <<28, 2, 2020>>>> }

\* variant: the two comparisons joined by & in place of |
OutsideMaskBoth(days, lo, hi) == [k \in 1..Len(days) |-> (days[k] < lo) /\ (days[k] > hi)]

\* _idx = (d<data_min) | (d>data_max)
OutsideMask(days, lo, hi) == [k \in 1..Len(days) |-> (days[k] < lo) \/ (days[k] > hi)]

\* arr[:,:,idx] = np.nan
SetNaN(arr, idx) ==
    [arr EXCEPT !.data = [t \in DOMAIN arr.data |-> IF idx[t[3]] THEN NaN ELSE arr.data[t]]]

-----------------------------------------------------------------------------
NoArray == [shape |-> <<0, 0, 0>>, data |-> <<>>]

Init ==
    /\ file \in Files \cup DefectFiles
    /\ args = <<>>
    /\ pc = "idle"
    /\ err = "none"
    /\ date_min = 0 /\ date_max = 0
    /\ handle = "unopened" /\ opens = 0
    /\ latd = 0 /\ lond = 0
    /\ bounds = <<>>
    /\ xch4 = NoArray /\ sdev = NoArray /\ N = NoArray
    /\ x = <<>> /\ y = <<>> /\ d = <<>>
    /\ ret = <<>>
    /\ prev = <<>>
    /\ cell = <<>>

\* entry of load_grid_from_netcdf with the given arguments: the two date
\* conversions, which raise ValueError for a date that does not exist
Enter(s, e, g) ==
    /\ args' = [start |-> s, end |-> e, grid_dim |-> g]
    /\ IF ValidDate(s[1], s[2], s[3]) /\ ValidDate(e[1], e[2], e[3])
       THEN /\ date_min' = DateOffset(s[1], s[2], s[3])
            /\ date_max' = DateOffset(e[1], e[2], e[3])
            /\ pc' = "load" /\ err' = "none"
       ELSE /\ pc' = "raised" /\ err' = "ValueError"
            /\ UNCHANGED <<date_min, date_max>>

\* a call of the function on the file
Call ==
    /\ pc = "idle"
    /\ \E s \in Dates, e \in Dates, g \in GridDims : Enter(s, e, g)
    /\ UNCHANGED <<file, handle, opens, latd, lond, bounds, xch4, sdev, N, x, y, d,
                   ret, prev, cell>>

\* the caller of a call that omitted grid_dim calls again, with the same
\* dates and the declared extent of the file as grid_dim; the result of the
\* first call is kept in prev
CallAgain ==
    /\ pc = "done" /\ prev = <<>> /\ args.grid_dim = <<>>
    /\ prev' = <<ret>>
    /\ Enter(args.start, args.end,
             <<file.attrs.lat_low, file.attrs.lat_high,
               file.attrs.lon_low, file.attrs.lon_high>>)
    /\ handle' = "unopened" /\ opens' = 0
    /\ latd' = 0 /\ lond' = 0
    /\ bounds' = <<>>
    /\ xch4' = NoArray /\ sdev' = NoArray /\ N' = NoArray
    /\ x' = <<>> /\ y' = <<>> /\ d' = <<>>
    /\ ret' = <<>>
    /\ UNCHANGED <<file, cell>>

\* ds = xr.load_dataset(path)
LoadDataset ==
    /\ pc = "load"
    /\ IF ~file.exists
       THEN /\ err' \in LoadErrors(file) /\ pc' = "raised"
            /\ UNCHANGED <<handle, opens>>
       ELSE /\ handle' \in AfterLoad(handle) /\ opens' = opens + 1
            /\ IF ~file.readable
               THEN err' \in LoadErrors(file) /\ pc' = "raised"
               ELSE pc' = "attrs" /\ UNCHANGED err
    /\ UNCHANGED <<file, args, date_min, date_max, latd, lond, bounds,
                   xch4, sdev, N, x, y, d, ret, prev, cell>>

\* the attributes, latd and lond, the two np.zeros, and x, y, d
ReadAttrs ==
    /\ pc = "attrs"
    /\ LET at == file.attrs
           nlat == at.lat_high - at.lat_low
           nlon == at.lon_high - at.lon_low
       IN  IF file.missing \in EarlyAttrs
           THEN /\ err' = MissingError(file.missing)
                /\ pc' = "raised"
                /\ UNCHANGED <<latd, lond, x, y, d>>
           ELSE IF at.lat_res = 0
           THEN /\ err' \in ZeroStepErrors(nlat)
                /\ pc' = "raised"
                /\ UNCHANGED <<latd, lond, x, y, d>>
           ELSE IF at.lon_res = 0
           THEN /\ err' \in ZeroStepErrors(nlon)
                /\ pc' = "raised"
                /\ latd' = IntDiv(nlat, at.lat_res)
                /\ UNCHANGED <<lond, x, y, d>>
           ELSE /\ latd' = IntDiv(nlat, at.lat_res)
                /\ lond' = IntDiv(nlon, at.lon_res)
                /\ IF ZerosFails(latd', lond')
                   THEN /\ err' = "ValueError" /\ pc' = "raised"
                        /\ UNCHANGED <<x, y, d>>
                   ELSE IF file.missing \in LateItems
                   THEN /\ err' = MissingError(file.missing) /\ pc' = "raised"
                        /\ x' = (IF file.missing = "lon" THEN x ELSE file.lon)
                        /\ y' = (IF file.missing \in {"lon", "lat"} THEN y ELSE file.lat)
                        /\ d' = (IF file.missing \in {"lon", "lat", "day"} THEN d ELSE file.day)
                   ELSE /\ x' = file.lon /\ y' = file.lat /\ d' = file.day
                        /\ pc' = "select" /\ UNCHANGED err
    /\ UNCHANGED <<file, args, date_min, date_max, handle, opens, bounds,
                   xch4, sdev, N, ret, prev, cell>>

\* the effective bounds, the masks and the six selections
Select ==
    /\ pc = "select"
    /\ LET bnd == EffectiveBounds(args.grid_dim, file.attrs)
           a == LatMask(y, bnd)
           b == LonMask(x, bnd)
           c == DayMask(d, date_min, date_max)
       IN  /\ bounds' = bnd
           /\ IF file.missing \in DataVars
              THEN /\ err' = MissingError(file.missing) /\ pc' = "raised"
                   /\ xch4' = (IF file.missing = "xch4" THEN xch4 ELSE SliceXch4(file, a, b, c))
                   /\ sdev' = (IF file.missing = "N" THEN SliceErr(file, a, b, c) ELSE sdev)
                   /\ UNCHANGED <<N, d, x, y>>
              ELSE /\ xch4' = SliceXch4(file, a, b, c)
                   /\ sdev' = SliceErr(file, a, b, c)
                   /\ N' = SliceN(file, a, b, c)
                   /\ d' = Take(d, c)
                   /\ x' = Take(x, b)
                   /\ y' = Take(y, a)
                   /\ pc' = "close" /\ UNCHANGED err
    /\ UNCHANGED <<file, args, date_min, date_max, handle, opens, latd, lond,
                   ret, prev, cell>>

\* ds.close()
Close ==
    /\ pc = "close"
    /\ handle' = AfterClose(handle)
    /\ pc' = "return"
    /\ UNCHANGED <<file, args, err, date_min, date_max, opens, latd, lond, bounds,
                   xch4, sdev, N, x, y, d, ret, prev, cell>>

\* the grid_dim dictionary and the return statement
Return ==
    /\ pc = "return"
    /\ ret' = ReturnTuple(xch4, sdev, N, x, y, d,
                          GridDimRecord(bounds, file.attrs.lat_res, file.attrs.lon_res),
                          file.attrs)
    /\ pc' = "done"
    /\ UNCHANGED <<file, args, err, date_min, date_max, handle, opens, latd, lond,
                   bounds, xch4, sdev, N, x, y, d, prev, cell>>

\* the rest of the load cell, once its call has returned: the unpacking of
\* the result, data_min and data_max, and the two assignments of np.nan
MaskOutside ==
    /\ pc = "done" /\ prev = <<>> /\ args.grid_dim \in CellGrids
    /\ \E w \in DataWindows :
         LET lo == DateOffset(w[1][1], w[1][2], w[1][3])
             hi == DateOffset(w[2][1], w[2][2], w[2][3])
             idx == OutsideMask(ret[6], lo, hi)
         IN  cell' = [data_min |-> lo, data_max |-> hi,
                      vmr |-> SetNaN(ret[1], idx), sdev |-> SetNaN(ret[2], idx),
                      N |-> ret[3], lons |-> ret[4], lats |-> ret[5], d |-> ret[6],
                      grid_dim |-> ret[7], product_type |-> ret[8], ref_time |-> ret[9]]
    /\ pc' = "masked"
    /\ UNCHANGED <<file, args, err, date_min, date_max, handle, opens, latd, lond,
                   bounds, xch4, sdev, N, x, y, d, ret, prev>>

Next ==
    Call \/ CallAgain \/ LoadDataset \/ ReadAttrs \/ Select \/ Close \/ Return \/ MaskOutside

Spec == Init /\ [][Next]_vars

-----------------------------------------------------------------------------
\* Vocabulary of the properties. The caller of the notebook unpacks the
\* result as vmr, sdev, N, lons, lats, d, grid_dim, product_type, ref_time.

Returned == pc = "done"

RetLons == ret[4]
RetLats == ret[5]
RetDays == ret[6]
RetMeta == ret[7]

Range(s) == {s[i] : i \in 1..Len(s)}

\* the position of value v on an axis of the file
Pos(axis, v) == CHOOSE p \in 1..Len(axis) : axis[p] = v

\* the positions of the elements of sel on the axis increase
InFileOrder(sel, axis) ==
    \A i, j \in 1..Len(sel) : i < j => Pos(axis, sel[i]) < Pos(axis, sel[j])

StartOffset == DateOffset(args.start[1], args.start[2], args.start[3])
EndOffset == DateOffset(args.end[1], args.end[2], args.end[3])

DeclaredExtent ==
    <<file.attrs.lat_low, file.attrs.lat_high, file.attrs.lon_low, file.attrs.lon_high>>

\* the bounds the selection is made with
UsedBounds == IF args.grid_dim # <<>> THEN args.grid_dim ELSE DeclaredExtent

LatsWithin(b) == {v \in Range(file.lat) : b[1] <= v /\ v < b[2]}
LonsWithin(b) == {v \in Range(file.lon) : b[3] <= v /\ v < b[4]}
DaysWithin(lo, hi) == {v \in Range(file.day) : lo <= v /\ v <= hi}

-----------------------------------------------------------------------------
\* C1: for start <= end, the returned day array holds only day offsets v with
\* start_offset <= v <= end_offset, and it holds every day offset of the
\* file's day coordinate that lies in that closed interval.
DayRangeClosed ==
    (Returned /\ StartOffset <= EndOffset) =>
        /\ \A k \in 1..Len(RetDays) : StartOffset <= RetDays[k] /\ RetDays[k] <= EndOffset
        /\ \A v \in Range(file.day) :
              (StartOffset <= v /\ v <= EndOffset) => v \in Range(RetDays)

\* a return where the file has a day equal to end_offset, a day before
\* start_offset, and start < end
DayRangeClosedWitness ==
    /\ Returned /\ StartOffset < EndOffset
    /\ EndOffset \in Range(file.day) /\ EndOffset \in Range(RetDays)
    /\ \E v \in Range(file.day) : v < StartOffset /\ v \notin Range(RetDays)

\* C2: with grid_dim given, the returned latitudes are exactly the file's
\* latitudes v with lat_min <= v < lat_max and the returned longitudes exactly
\* the file's longitudes v with lon_min <= v < lon_max.
SpatialRangeHalfOpen ==
    (Returned /\ args.grid_dim # <<>>) =>
        /\ Range(RetLats) = LatsWithin(args.grid_dim)
        /\ Range(RetLons) = LonsWithin(args.grid_dim)
        /\ Len(RetLats) = Cardinality(LatsWithin(args.grid_dim))
        /\ Len(RetLons) = Cardinality(LonsWithin(args.grid_dim))

\* a return where the file has a latitude equal to lat_min and one equal to
\* lat_max, and a longitude equal to lon_min and one equal to lon_max
SpatialRangeHalfOpenWitness ==
    /\ Returned /\ args.grid_dim # <<>>
    /\ args.grid_dim[1] \in Range(file.lat) /\ args.grid_dim[2] \in Range(file.lat)
    /\ args.grid_dim[3] \in Range(file.lon) /\ args.grid_dim[4] \in Range(file.lon)
    /\ RetLats = <<args.grid_dim[1]>> /\ RetLons = <<args.grid_dim[3]>>

\* C3: a call with grid_dim omitted and the call with the same dates and
\* grid_dim set to the declared extent of the file return the same result;
\* the second call returns whenever the first did.
OmittedEqualsDeclaredExtent ==
    prev # <<>> => (pc # "raised" /\ (Returned => ret = prev[1]))

\* the second call has returned, the selection is not empty and leaves out a
\* latitude of the file
OmittedEqualsDeclaredExtentWitness ==
    /\ Returned /\ prev # <<>>
    /\ Len(RetLats) >= 1 /\ Len(RetLons) >= 1 /\ Len(RetDays) >= 1
    /\ Len(RetLats) < Len(file.lat)

\* C4: the three returned data arrays have the same shape, which is (number
\* of returned latitudes, number of returned longitudes, number of returned
\* days).
SameShape ==
    Returned =>
        \A v \in 1..3 :
            /\ ret[v].shape = <<Len(RetLats), Len(RetLons), Len(RetDays)>>
            /\ DOMAIN ret[v].data = Cells(ret[v].shape)

\* a return of arrays with fewer days than the file has, and with different
\* lengths on the three axes
SameShapeWitness ==
    /\ Returned
    /\ ret[3].shape[3] >= 1 /\ ret[3].shape[3] < Len(file.day)
    /\ ret[1].shape[1] = 2 /\ ret[1].shape[2] = 1

MetadataEffectiveBounds ==
    Returned =>
        /\ <<RetMeta.LAT_LOW, RetMeta.LAT_HIGH, RetMeta.LON_LOW, RetMeta.LON_HIGH>> = UsedBounds
        /\ Range(RetLats) =
              LatsWithin(<<RetMeta.LAT_LOW, RetMeta.LAT_HIGH, RetMeta.LON_LOW, RetMeta.LON_HIGH>>)
        /\ Range(RetLons) =
              LonsWithin(<<RetMeta.LAT_LOW, RetMeta.LAT_HIGH, RetMeta.LON_LOW, RetMeta.LON_HIGH>>)
        /\ RetMeta.LAT_STEP = file.attrs.lat_res
        /\ RetMeta.LON_STEP = file.attrs.lon_res

\* a return for a grid_dim that differs from the declared extent, on a file
\* whose two steps differ
MetadataEffectiveBoundsWitness ==
    /\ Returned /\ args.grid_dim # <<>> /\ args.grid_dim # DeclaredExtent
    /\ RetMeta.LAT_LOW # file.attrs.lat_low /\ RetMeta.LON_HIGH # file.attrs.lon_high
    /\ file.attrs.lat_res # file.attrs.lon_res
    /\ Len(RetLats) >= 1

\* C8: the fourth returned element is the latitude array, as long as the
\* first axis of the data arrays, and the fifth is the longitude array, as
\* long as their second axis (the order the docstring gives).
DocstringOrder ==
    Returned =>
        /\ Range(ret[4]) = LatsWithin(UsedBounds)
        /\ Len(ret[4]) = ret[1].shape[1]
        /\ Range(ret[5]) = LonsWithin(UsedBounds)
        /\ Len(ret[5]) = ret[1].shape[2]

\* C9: for start <= end the returned day axis is start_offset, ...,
\* end_offset in ascending order without gaps, and the data arrays have one
\* slice along the third axis for each of those days.
SortedAndFilled ==
    (Returned /\ StartOffset <= EndOffset) =>
        /\ RetDays = [k \in 1..(EndOffset - StartOffset + 1) |-> StartOffset + k - 1]
        /\ \A v \in 1..3 : ret[v].shape[3] = EndOffset - StartOffset + 1

\* the declared bounds and steps give the lengths of the file's axes
DeclaredConsistent ==
    /\ file.attrs.lat_res # 0 /\ file.attrs.lon_res # 0
    /\ IntDiv(file.attrs.lat_high - file.attrs.lat_low, file.attrs.lat_res) = Len(file.lat)
    /\ IntDiv(file.attrs.lon_high - file.attrs.lon_low, file.attrs.lon_res) = Len(file.lon)

\* int((high - low) / res) is negative for an axis, the steps not being zero
NegativeQuotient(extent, step) ==
    /\ (extent < 0 /\ step > 0) \/ (extent > 0 /\ step < 0)
    /\ Abs(extent) >= Abs(step)

NegativeBins ==
    \/ NegativeQuotient(file.attrs.lat_high - file.attrs.lat_low, file.attrs.lat_res)
    \/ NegativeQuotient(file.attrs.lon_high - file.attrs.lon_low, file.attrs.lon_res)

HandleReleasedOnReturn ==
    /\ Returned => (handle = "closed" /\ opens = 1)
    /\ opens <= 1
    /\ pc \in {"idle", "load"} => (handle = "unopened" /\ opens = 0)
    /\ pc \in {"attrs", "select", "close", "return"} => opens = 1

\* a return with the handle closed of a call that omitted grid_dim and
\* selected no day, on a file that has days
HandleReleasedOnReturnWitness ==
    /\ Returned /\ handle = "closed" /\ opens = 1
    /\ args.grid_dim = <<>>
    /\ Len(file.day) >= 1 /\ Len(RetDays) = 0 /\ Len(RetLats) >= 1

\* the call has raised an exception
Failed == pc = "raised"

\* the two dates of the call are calendar dates
DatesValid ==
    /\ ValidDate(args.start[1], args.start[2], args.start[3])
    /\ ValidDate(args.end[1], args.end[2], args.end[3])

\* xr.load_dataset can load the path
Loadable == file.exists /\ file.readable

\* the kinds of error an I/O failure of the load can have
IOErrorKinds == LoadErrors([exists |-> FALSE]) \cup LoadErrors([exists |-> TRUE])

\* a step is zero or a declared number of bins is negative
BadArithmetic == file.attrs.lat_res = 0 \/ file.attrs.lon_res = 0 \/ NegativeBins

Masked == pc = "masked"

\* C13: after the load cell has run, every value (vmr) and error (sdev)
\* entry whose day is < data_min or > data_max is NaN, and everything else
\* is as the call returned it: the value and error entries of the days
\* inside [data_min, data_max], the shapes, the whole count array N, the day
\* axis, which still holds all loaded days of [date_min, date_max], and the
\* lat and lon arrays.
OnlyDataWindowUsed ==
    Masked =>
        /\ cell.vmr.shape = ret[1].shape /\ cell.sdev.shape = ret[2].shape
        /\ DOMAIN cell.vmr.data = Cells(ret[1].shape)
        /\ DOMAIN cell.sdev.data = Cells(ret[2].shape)
        /\ \A t \in Cells(ret[1].shape) :
              IF cell.d[t[3]] < cell.data_min \/ cell.d[t[3]] > cell.data_max
              THEN cell.vmr.data[t] = NaN /\ cell.sdev.data[t] = NaN
              ELSE /\ cell.vmr.data[t] = ret[1].data[t]
                   /\ cell.sdev.data[t] = ret[2].data[t]
                   /\ cell.vmr.data[t] # NaN /\ cell.sdev.data[t] # NaN
        /\ cell.N = ret[3]
        /\ \A t \in Cells(ret[3].shape) : cell.N.data[t] # NaN
        /\ cell.d = ret[6]
        /\ Range(cell.d) = DaysWithin(date_min, date_max)
        /\ cell.lons = ret[4] /\ cell.lats = ret[5]

\* the cell has run on a result of two days, the first outside the data
\* window and set to NaN, the second inside and kept, on a grid with cells
OnlyDataWindowUsedWitness ==
    /\ Masked /\ Len(cell.d) = 2
    /\ cell.d[1] < cell.data_min /\ cell.d[2] >= cell.data_min /\ cell.d[2] <= cell.data_max
    /\ Len(cell.lats) >= 1 /\ Len(cell.lons) >= 1
    /\ cell.vmr.data[<<1, 1, 1>>] = NaN /\ cell.vmr.data[<<1, 1, 2>>] = ret[1].data[<<1, 1, 2>>]
    /\ cell.N.data[<<1, 1, 1>>] = ret[3].data[<<1, 1, 1>>]

====
